---- MODULE Spec2Model ----
(***************************************************************************)
(* Element tangent matrix and mean-dilatation term of the nonlinear        *)
(* elasticity numerics (SU2_CFD/src/numerics_fem_nonlinear_elasticity.cpp).*)
(*                                                                         *)
(* Numbers.  A double is modelled by an exact rational <<num, den>> in     *)
(* lowest terms with den > 0; <<0, 0>> stands for every non-finite double  *)
(* (NaN, +-inf) and absorbs every operation, as NaN does.  Rounding is not *)
(* modelled.  log() is modelled by the rational 2(x-1)/(x+1) for x > 0     *)
(* (zero at 1, same sign and monotonicity as log) and is non-finite for    *)
(* x <= 0.                                                                 *)
(***************************************************************************)
EXTENDS Integers, Sequences, FiniteSets, TLC

VARIABLES
    nDim,     \* val_nDim given to the constructor (2 or 3)
    build,    \* what this build and run make of the undefined behaviour
    elem,     \* the CElement's inputs: counts, weights, gradients, coordinates
    m,        \* the CFEM_NeoHookean_Comp object's member data
    el,       \* the CElement's stiffness storage (Kab, Ks_ab, Kk_ab)
    obs,      \* history of the last call (what it read and passed on)
    last,     \* name of the last completed call
    calls,    \* number of calls made so far
    tpc,      \* position of an in-progress Compute_Tangent_Matrix
    mpc,      \* position of an in-progress Compute_MeanDilatation_Term
    stk,      \* what the dead stack slots of the uninitialised locals hold
    fault     \* TRUE once the out-of-range store has ended the process

vars == <<nDim, build, elem, m, el, obs, last, calls, tpc, mpc, stk, fault>>

----------------------------------------------------------------------------
(* Bounds *)

MaxNode == 3
MaxGauss == 2
MaxCalls == 2

\* values an uninitialised heap cell may hold, and the junk an uninitialised
\* local may hold when its stack slot was overwritten since it was last set
HeapGarbage == {<<0, 1>>, <<1, 1>>}
StackJunk == <<5, 1>>

----------------------------------------------------------------------------
(* double arithmetic *)

NaN == <<0, 0>>
R(n) == <<n, 1>>
Zero == <<0, 1>>
One == <<1, 1>>

Abs(x) == IF x < 0 THEN -x ELSE x

RECURSIVE GCD(_, _)
GCD(a, b) == IF b = 0 THEN a ELSE GCD(b, a % b)

Norm(n, d) ==
    IF d = 0 THEN NaN
    ELSE IF n = 0 THEN Zero
    ELSE LET g == GCD(Abs(n), Abs(d))
             sg == IF d < 0 THEN -1 ELSE 1
         IN <<(sg * n) \div g, (sg * d) \div g>>

IsFinite(x) == x[2] # 0

RAdd(x, y) ==
    IF x[2] = 0 \/ y[2] = 0 THEN NaN
    ELSE IF x[1] = 0 THEN y
    ELSE IF y[1] = 0 THEN x
    ELSE IF x[2] = 1 /\ y[2] = 1 THEN <<x[1] + y[1], 1>>
    ELSE Norm(x[1] * y[2] + y[1] * x[2], x[2] * y[2])

RNeg(x) == <<-x[1], x[2]>>

RSub(x, y) == RAdd(x, RNeg(y))

RMul(x, y) ==
    IF x[2] = 0 \/ y[2] = 0 THEN NaN
    ELSE IF x[1] = 0 \/ y[1] = 0 THEN Zero
    ELSE IF x[2] = 1 /\ y[2] = 1 THEN <<x[1] * y[1], 1>>
    ELSE Norm(x[1] * y[1], x[2] * y[2])

\* x / y of two doubles; y = 0 gives a non-finite result
RDiv(x, y) ==
    IF x[2] = 0 \/ y[2] = 0 \/ y[1] = 0 THEN NaN
    ELSE Norm(x[1] * y[2], x[2] * y[1])

RMul3(x, y, z) == RMul(RMul(x, y), z)

RMul4(x, y, z, w) == RMul(RMul(RMul(x, y), z), w)

\* log(x)
Log(x) ==
    IF x[2] = 0 \/ x[1] <= 0 THEN NaN
    ELSE RDiv(RMul(R(2), RSub(x, One)), RAdd(x, One))

\* sum of f[0] .. f[n-1]
RECURSIVE RSum(_, _)
RSum(f, n) == IF n = 0 THEN Zero ELSE RAdd(RSum(f, n - 1), f[n - 1])

Idx3 == 0 .. 2
Idx6 == 0 .. 5
NodeIdx == 0 .. (MaxNode - 1)
GaussIdx == 0 .. (MaxGauss - 1)

Mat(rows, cols, v) == [i \in rows |-> [j \in cols |-> v]]

----------------------------------------------------------------------------
(* Material constants of the base class (set at construction from the     *)
(* configuration, immutable thereafter)                                    *)

Mu == <<1, 1>>
Lambda == <<2, 1>>
Kappa == <<3, 1>>

----------------------------------------------------------------------------
(* The element's inputs (CElement getters); elem holds the parameters of    *)
(* the element at hand.  The family enumerated is the                      *)
(* linear simplex: node n < nDim has reference gradient e_n, node nDim has *)
(* gradient -(1,..,1); the gradients at Gauss point 1 and later are those  *)
(* of point 0 scaled by gq.  The current coordinates are the reference     *)
(* ones scaled by def (0: collapsed to a point, 1: undeformed), with a     *)
(* shear of node 1 along x when def = 2.                                   *)

Deformations == 0 .. 2
GaussScales == {0, 2}

Delta(i, j) == IF i = j THEN 1 ELSE 0

BaseGrad(dim, n, d) == IF n < dim THEN Delta(n, d) ELSE -1

ElemParams ==
    [nNode : 0 .. MaxNode, nGauss : 0 .. MaxGauss,
     def : Deformations, gq : GaussScales]

\* element->GetnGaussPointsP(): the reduced rule of the pressure term
GetnGaussPointsP == (elem.nGauss + 1) \div 2

\* element->GetWeight(iGauss), GetJ_X(iGauss)
GetWeight(g) == R(g + 1)
GetJ_X(g) == R(2)

\* element->GetGradNi_X(iNode, iGauss, iDim)
GetGradNi_X(n, g, d) == R(BaseGrad(nDim, n, d) * (IF g = 0 THEN 1 ELSE elem.gq))

\* element->GetCurr_Coord(iNode, iDim)
GetCurr_Coord(n, d) ==
    IF n < nDim
    THEN R(elem.def * Delta(n, d)
           + (IF elem.def = 2 /\ n = 1 /\ d = 0 THEN 1 ELSE 0))
    ELSE Zero

\* element->GetWeight_P(iGauss), GetJ_X_P(iGauss), GetJ_x_P(iGauss)
GetWeight_P(g) == R(2)
GetJ_X_P(g) == R(1)
GetJ_x_P(g) == R(elem.def)

\* element->GetGradNi_x_P(iNode, iGauss, iDim)
GetGradNi_x_P(n, g, d) == R(BaseGrad(nDim, n, d) * (g + 1))

bDim == IF nDim = 2 THEN 3 ELSE 6

----------------------------------------------------------------------------
(* The element's stiffness storage (CElement).  Kab and Kk_ab hold one     *)
(* block per node pair, Ks_ab one scalar per node pair.                    *)

ZeroBlock == Mat(Idx3, Idx3, Zero)

\* element->clearElement(): resets the accumulators Kab and Ks_ab
clearElement(e) ==
    [e EXCEPT !.Kab = Mat(NodeIdx, NodeIdx, ZeroBlock),
              !.Ks_ab = Mat(NodeIdx, NodeIdx, Zero)]

\* element->Add_Kab(K, a, b): Kab[a][b] += K
Add_Kab(e, K, a, b) ==
    [e EXCEPT !.Kab[a][b] =
        [i \in Idx3 |-> [j \in Idx3 |->
            IF i < nDim /\ j < nDim THEN RAdd(@[i][j], K[i][j]) ELSE @[i][j]]]]

\* element->Add_Kab_T(K, a, b): Kab[a][b] += transpose(K)
Add_Kab_T(e, K, a, b) ==
    [e EXCEPT !.Kab[a][b] =
        [i \in Idx3 |-> [j \in Idx3 |->
            IF i < nDim /\ j < nDim THEN RAdd(@[i][j], K[j][i]) ELSE @[i][j]]]]

\* element->Add_Ks_ab(v, a, b): Ks_ab[a][b] += v
Add_Ks_ab(e, v, a, b) == [e EXCEPT !.Ks_ab[a][b] = RAdd(@, v)]

\* element->Set_Kk_ab(K, a, b): Kk_ab[a][b] = K
Set_Kk_ab(e, K, a, b) ==
    [e EXCEPT !.Kk_ab[a][b] =
        [i \in Idx3 |-> [j \in Idx3 |->
            IF i < nDim /\ j < nDim THEN K[i][j] ELSE @[i][j]]]]

----------------------------------------------------------------------------
(* Uninitialised locals.  A local read before it was assigned holds either *)
(* what the same local was last assigned (its dead stack slot was not      *)
(* reused since) or junk.                                                  *)

StackOutcomes == {"stale", "junk"}

Uninit(slot, u) == IF u = "stale" THEN slot ELSE StackJunk

----------------------------------------------------------------------------
(* CFEM_NeoHookean_Comp *)

\* the six rows of D_Mat as assigned from Mu_p and Lambda_p
D_Fill(Mu_p, Lambda_p) ==
    LET diag == RAdd(Lambda_p, RMul(R(2), Mu_p))
    IN [i \in Idx6 |-> [j \in Idx6 |->
           IF i < 3 /\ j < 3 THEN (IF i = j THEN diag ELSE Lambda_p)
           ELSE IF i = j THEN Mu_p ELSE Zero]]

\* Compute_Constitutive_Matrix() on state S = [m, el, obs, stk]
Compute_Constitutive_Matrix(S, u) ==
    LET set == S.m.J_F # Zero
        Mu_p == IF set
                THEN RDiv(RSub(Mu, RMul(Lambda, Log(S.m.J_F))), S.m.J_F)
                ELSE Uninit(S.stk.Mu_p, u)
        Lambda_p == IF set THEN RDiv(Lambda, S.m.J_F)
                    ELSE Uninit(S.stk.Lambda_p, u)
    IN [S EXCEPT !.m.D_Mat = D_Fill(Mu_p, Lambda_p),
                 !.obs.Mu_p = Mu_p,
                 !.obs.Lambda_p = Lambda_p,
                 !.obs.constCalled = TRUE,
                 !.stk.Mu_p = IF set THEN Mu_p ELSE @,
                 !.stk.Lambda_p = IF set THEN Lambda_p ELSE @,
                 !.stk.coefSet = @ \/ set]

\* Compute_Stress_Tensor() on state S
Compute_Stress_Tensor(S, u) ==
    LET set == S.m.J_F # Zero
        Mu_J == IF set THEN RDiv(Mu, S.m.J_F) ELSE Uninit(S.stk.Mu_J, u)
        Lambda_J == IF set THEN RDiv(Lambda, S.m.J_F)
                    ELSE Uninit(S.stk.Lambda_J, u)
        vol == RMul(Lambda_J, Log(S.m.J_F))
    IN [S EXCEPT !.m.Stress_Tensor =
                     [i \in Idx3 |-> [j \in Idx3 |->
                         RAdd(RMul(Mu_J, RSub(S.m.b_Mat[i][j], R(Delta(i, j)))),
                              RMul(vol, R(Delta(i, j))))]],
                 !.m.stressFresh = TRUE,
                 !.obs.Mu_J = Mu_J,
                 !.obs.Lambda_J = Lambda_J,
                 !.stk.Mu_J = IF set THEN Mu_J ELSE @,
                 !.stk.Lambda_J = IF set THEN Lambda_J ELSE @,
                 !.stk.stressSet = @ \/ set]

----------------------------------------------------------------------------
(* CFEM_NonlinearElasticity::Compute_MeanDilatation_Term, in the steps of  *)
(* its code.  loc holds the locals Vol_current and Vol_reference.          *)

\* lines 320-328: clear the gradient buffer and the two volumes
MD_Begin(S) ==
    [S EXCEPT !.m.GradNi_Mat =
                  [n \in NodeIdx |-> [d \in Idx3 |->
                      IF n < elem.nNode /\ d < nDim THEN Zero ELSE @[n][d]]],
              !.obs.gradBefore = S.m.GradNi_Mat,
              !.obs.KkBefore = S.el.Kk_ab,
              !.obs.kappaBefore = S.stk.Avg_kappa,
              !.obs.kkCalls = << >>]

MD_Locals == [Vol_current |-> Zero, Vol_reference |-> Zero]

\* lines 332-348: one Gauss point of the pressure rule
MD_Gauss(S, g) ==
    [S EXCEPT !.m.GradNi_Mat =
        [n \in NodeIdx |-> [d \in Idx3 |->
            IF n < elem.nNode /\ d < nDim
            THEN RAdd(@[n][d], RMul3(GetWeight_P(g), GetGradNi_x_P(n, g, d),
                                     GetJ_x_P(g)))
            ELSE @[n][d]]]]

MD_GaussLocals(loc, g) ==
    [Vol_current |-> RAdd(loc.Vol_current, RMul(GetWeight_P(g), GetJ_x_P(g))),
     Vol_reference |-> RAdd(loc.Vol_reference, RMul(GetWeight_P(g), GetJ_X_P(g)))]

\* lines 352-364: the averaged gradients and the averaged bulk modulus
MD_Volumes(loc) == loc.Vol_current # Zero /\ loc.Vol_reference # Zero

MD_Average(S, loc, u) ==
    IF MD_Volumes(loc)
    THEN LET k == RDiv(RMul(Kappa, loc.Vol_current), loc.Vol_reference)
         IN [S EXCEPT !.m.GradNi_Mat =
                          [n \in NodeIdx |-> [d \in Idx3 |->
                              IF n < elem.nNode /\ d < nDim
                              THEN RDiv(@[n][d], loc.Vol_current) ELSE @[n][d]]],
                      !.obs.Avg_kappa = k,
                      !.stk.Avg_kappa = k,
                      !.stk.kappaSet = TRUE]
    ELSE [S EXCEPT !.obs.Avg_kappa = Uninit(S.stk.Avg_kappa, u)]

\* the pair loop with the symmetry shortcut of the tangent pass (jNode >= iNode)
MD_PairsUpper ==
    LET all == [k \in 1 .. (elem.nNode * elem.nNode) |->
                   <<(k - 1) \div elem.nNode, (k - 1) % elem.nNode>>]
    IN SelectSeq(all, LAMBDA q : q[2] >= q[1])

\* lines 366-381, the node pairs in the order the two loops visit them
MD_Pairs ==
    [k \in 1 .. (elem.nNode * elem.nNode) |->
        <<(k - 1) \div elem.nNode, (k - 1) % elem.nNode>>]

\* lines 371-375: KAux_P_ab for the pair (a, b)
KAux_P_ab(S, loc, a, b) ==
    [i \in Idx3 |-> [j \in Idx3 |->
        IF i < nDim /\ j < nDim
        THEN RMul4(S.obs.Avg_kappa, loc.Vol_current,
                   S.m.GradNi_Mat[a][i], S.m.GradNi_Mat[b][j])
        ELSE Zero]]

\* the pair loop storing the pressure block into the material block Kab
RECURSIVE MD_SetLoopShared(_, _, _, _)
MD_SetLoopShared(S, loc, pairs, k) ==
    IF k > Len(pairs) THEN S
    ELSE LET a == pairs[k][1]
             b == pairs[k][2]
         IN MD_SetLoopShared(
                [S EXCEPT !.el = Add_Kab(@, KAux_P_ab(S, loc, a, b), a, b),
                          !.obs.kkCalls = Append(@, pairs[k])],
                loc, pairs, k + 1)

RECURSIVE MD_SetLoop(_, _, _, _)
MD_SetLoop(S, loc, pairs, k) ==
    IF k > Len(pairs) THEN S
    ELSE LET a == pairs[k][1]
             b == pairs[k][2]
         IN MD_SetLoop(
                [S EXCEPT !.el = Set_Kk_ab(@, KAux_P_ab(S, loc, a, b), a, b),
                          !.obs.kkCalls = Append(@, pairs[k])],
                loc, pairs, k + 1)

MD_Finish(S, loc, u) ==
    LET A == MD_Average(S, loc, u)
    IN MD_SetLoop([A EXCEPT !.obs.Vol_current = loc.Vol_current,
                            !.obs.Vol_reference = loc.Vol_reference,
                            !.obs.volumes = MD_Volumes(loc)],
                  loc, MD_Pairs, 1)

RECURSIVE MD_GaussLoop(_, _, _)
MD_GaussLoop(S, loc, g) ==
    IF g >= GetnGaussPointsP THEN [S |-> S, loc |-> loc]
    ELSE MD_GaussLoop(MD_Gauss(S, g), MD_GaussLocals(loc, g), g + 1)

\* the whole call
Compute_MeanDilatation_Term(S, u) ==
    LET G == MD_GaussLoop(MD_Begin(S), MD_Locals, 0)
    IN MD_Finish(G.S, G.loc, u)

----------------------------------------------------------------------------
(* CFEM_NonlinearElasticity::Compute_Tangent_Matrix, in the steps of its   *)
(* code.                                                                   *)

\* lines 119-124 and 136: clear Ba_Mat, Bb_Mat and the element
T_Begin(S) ==
    LET clr(B) == [i \in Idx6 |-> [j \in Idx3 |->
                      IF i < bDim /\ j < nDim THEN Zero ELSE B[i][j]]]
    IN [S EXCEPT !.m.Ba_Mat = clr(@),
                 !.m.Bb_Mat = clr(@),
                 !.el = clearElement(@)]

\* lines 185-190: the determinant of F_Mat
Det3(F) ==
    RSub(RSub(RSub(RAdd(RAdd(RMul3(F[0][0], F[1][1], F[2][2]),
                             RMul3(F[0][1], F[1][2], F[2][0])),
                        RMul3(F[0][2], F[1][0], F[2][1])),
                   RMul3(F[0][2], F[1][1], F[2][0])),
              RMul3(F[1][2], F[2][1], F[0][0])),
         RMul3(F[2][2], F[0][1], F[1][0]))

\* lines 151-156: the cells of F_Mat and b_Mat the code resets
T_Reset(A) ==
    [i \in Idx3 |-> [j \in Idx3 |->
        IF i < nDim /\ j < nDim THEN Zero ELSE A[i][j]]]

\* lines 161-181: F_Mat after the node loop; the store F_Mat[3][3] = 1.0 of
\* line 178 lies outside the 3x3 array and reaches none of its cells
T_DeformationGradient(F0, g) ==
    [i \in Idx3 |-> [j \in Idx3 |->
        IF i < nDim /\ j < nDim
        THEN RAdd(F0[i][j],
                  RSum([n \in 0 .. (elem.nNode - 1) |->
                           RMul(GetCurr_Coord(n, i), GetGradNi_X(n, g, j))],
                       elem.nNode))
        ELSE F0[i][j]]]

\* lines 194-200: b_Mat += F.F^T over the full 3x3 range
T_LeftCauchy(b0, F) ==
    [i \in Idx3 |-> [j \in Idx3 |->
        RAdd(b0[i][j],
             RSum([k \in Idx3 |-> RMul(F[i][k], F[j][k])], 3))]]

\* lines 145-200: one Gauss point up to b_Mat
T_Gauss(S, g) ==
    LET F == T_DeformationGradient(T_Reset(S.m.F_Mat), g)
    IN [S EXCEPT !.m.F_Mat = F,
                 !.m.b_Mat = T_LeftCauchy(T_Reset(@), F),
                 !.m.J_F = Det3(F),
                 !.m.GradNi_Mat =
                     [n \in NodeIdx |-> [d \in Idx3 |->
                         IF n < elem.nNode /\ d < nDim
                         THEN GetGradNi_X(n, g, d) ELSE @[n][d]]],
                 !.m.stressFresh = FALSE,
                 !.obs.oob = @ \/ (nDim = 2 /\ elem.nNode > 0),
                 !.obs.gaussDone = @ + 1]

\* lines 205-221 and 250-266: the strain-displacement matrix of one node
Voigt(B, grad) ==
    IF nDim = 2
    THEN [B EXCEPT ![0][0] = grad[0], ![1][1] = grad[1],
                   ![2][0] = grad[1], ![2][1] = grad[0]]
    ELSE [B EXCEPT ![0][0] = grad[0], ![1][1] = grad[1], ![2][2] = grad[2],
                   ![3][0] = grad[1], ![3][1] = grad[0],
                   ![4][0] = grad[2], ![4][2] = grad[0],
                   ![5][1] = grad[2], ![5][2] = grad[1]]

\* the product Ba^T.D, entry (i, j) for i < nDim, j < bDim
BtD(Ba, D) ==
    [i \in Idx3 |-> [j \in Idx6 |->
        IF i < nDim /\ j < bDim
        THEN RSum([k \in 0 .. (bDim - 1) |-> RMul(Ba[k][i], D[k][j])], bDim)
        ELSE Zero]]

\* AuxMatrixKc is declared [6][3]: AuxMatrixKc[i][j] is cell 3*i + j of its
\* 18 doubles.  With j >= 3 the subscript leaves the row: the build either
\* addresses the flat cell ("flat") or takes the row bound as the loop bound
\* ("trunc").
AuxBuilds == {"flat", "trunc"}

AuxCols == IF build.aux = "flat" THEN bDim ELSE 3

AuxCell(i, j) == 3 * i + j

\* lines 230-237: the stores into AuxMatrixKc in loop order
RECURSIVE T_AuxStore(_, _, _)
T_AuxStore(cells, bt, k) ==
    IF k >= nDim * AuxCols THEN cells
    ELSE LET i == k \div AuxCols
             j == k % AuxCols
         IN T_AuxStore([cells EXCEPT ![AuxCell(i, j)] = bt[i][j]], bt, k + 1)

\* lines 241-246: AuxMatrixKs
T_AuxKs(S, a) ==
    [i \in Idx3 |->
        IF i < nDim
        THEN RSum([j \in 0 .. (nDim - 1) |->
                      RMul(S.m.GradNi_Mat[a][j], S.m.Stress_Tensor[j][i])], nDim)
        ELSE Zero]

\* lines 269-276: KAux_ab
T_KAux_ab(cells, Bb, g) ==
    [i \in Idx3 |-> [j \in Idx3 |->
        IF i < nDim /\ j < nDim
        THEN RSum([k \in 0 .. (AuxCols - 1) |->
                      RMul4(GetWeight(g), cells[AuxCell(i, k)], Bb[k][j],
                            GetJ_X(g))], AuxCols)
        ELSE Zero]]

\* lines 280-283: Ks_Aux_ab
T_Ks_Aux_ab(S, Ks, b, g) ==
    RSum([i \in 0 .. (nDim - 1) |->
             RMul4(GetWeight(g), Ks[i], S.m.GradNi_Mat[b][i], GetJ_X(g))],
         nDim)

\* Weight * (Ba^T.D) . Bb * Jac_X as a matrix product
ExactBlock(bt, Bb, g) ==
    [i \in Idx3 |-> [j \in Idx3 |->
        IF i < nDim /\ j < nDim
        THEN RMul3(GetWeight(g),
                   RSum([k \in 0 .. (bDim - 1) |-> RMul(bt[i][k], Bb[k][j])], bDim),
                   GetJ_X(g))
        ELSE Zero]]

\* lines 285-291: the four stores of one node pair
T_Store(e, K, Ks, a, b) ==
    LET e1 == Add_Ks_ab(Add_Kab(e, K, a, b), Ks, a, b)
    IN IF a # b
       THEN Add_Ks_ab(Add_Kab_T(e1, K, b, a), Ks, a, b)
       ELSE e1

\* lines 249-293: the loop over jNode >= iNode
RECURSIVE T_PairLoop(_, _, _, _, _, _, _)
T_PairLoop(S, bt, cells, Ks, g, a, b) ==
    IF b >= elem.nNode THEN S
    ELSE LET Bb == Voigt(S.m.Bb_Mat, S.m.GradNi_Mat[b])
             K == T_KAux_ab(cells, Bb, g)
             ks == T_Ks_Aux_ab(S, Ks, b, g)
         IN T_PairLoop(
                [S EXCEPT !.m.Bb_Mat = Bb,
                          !.el = T_Store(@, K, ks, a, b),
                          !.obs.blocksExact = @ /\ K = ExactBlock(bt, Bb, g)],
                bt, cells, Ks, g, a, b + 1)

\* lines 203-295: one node iNode = a of one Gauss point
T_Node(S, g, a, u) ==
    LET S1 == [S EXCEPT !.m.Ba_Mat = Voigt(@, S.m.GradNi_Mat[a])]
        S2 == Compute_Constitutive_Matrix(S1, u)
        bt == BtD(S2.m.Ba_Mat, S2.m.D_Mat)
        cells == T_AuxStore([c \in 0 .. 17 |-> Zero], bt, 0)
        Ks == T_AuxKs(S2, a)
        S3 == [S2 EXCEPT !.obs.staleStressRead = @ \/ ~S2.m.stressFresh]
    IN T_PairLoop(S3, bt, cells, Ks, g, a, a)

RECURSIVE T_NodeLoop(_, _, _, _)
T_NodeLoop(S, g, a, u) ==
    IF a >= elem.nNode THEN S
    ELSE T_NodeLoop(T_Node(S, g, a, u), g, a + 1, u)

RECURSIVE T_GaussLoop(_, _, _)
T_GaussLoop(S, g, u) ==
    IF g >= elem.nGauss THEN S
    ELSE T_GaussLoop(T_NodeLoop(T_Gauss(S, g), g, 0, u), g + 1, u)

\* the whole call
Compute_Tangent_Matrix(S, u) == T_GaussLoop(T_Begin(S), 0, u)

----------------------------------------------------------------------------
(* Construction *)

\* CFEM_NonlinearElasticity::CFEM_NonlinearElasticity: the arrays are
\* allocated and not initialised (every cell holds h); only J_F is set
InitModel(h) ==
    [F_Mat |-> Mat(Idx3, Idx3, h),
     b_Mat |-> Mat(Idx3, Idx3, h),
     Stress_Tensor |-> Mat(Idx3, Idx3, h),
     GradNi_Mat |-> Mat(NodeIdx, Idx3, h),
     Ba_Mat |-> Mat(Idx6, Idx3, h),
     Bb_Mat |-> Mat(Idx6, Idx3, h),
     D_Mat |-> Mat(Idx6, Idx6, h),
     J_F |-> Zero,
     stressFresh |-> FALSE]

InitElement ==
    [Kab |-> Mat(NodeIdx, NodeIdx, ZeroBlock),
     Ks_ab |-> Mat(NodeIdx, NodeIdx, Zero),
     Kk_ab |-> Mat(NodeIdx, NodeIdx, ZeroBlock)]

InitStack ==
    [Mu_p |-> StackJunk, Lambda_p |-> StackJunk, coefSet |-> FALSE,
     Mu_J |-> StackJunk, Lambda_J |-> StackJunk, stressSet |-> FALSE,
     Avg_kappa |-> StackJunk, kappaSet |-> FALSE]

ObsInit ==
    [prev |-> "none", u |-> "stale", passesOnly |-> TRUE,
     Mu_p |-> Zero, Lambda_p |-> Zero, constCalled |-> FALSE,
     Mu_J |-> Zero, Lambda_J |-> Zero,
     gaussDone |-> 0, oob |-> FALSE,
     staleStressRead |-> FALSE, blocksExact |-> TRUE,
     gradBefore |-> Mat(NodeIdx, Idx3, Zero),
     KkBefore |-> Mat(NodeIdx, NodeIdx, ZeroBlock),
     kappaBefore |-> Zero, kkCalls |-> << >>,
     Avg_kappa |-> Zero, Vol_current |-> Zero, Vol_reference |-> Zero,
     volumes |-> FALSE]

IdleT == [pc |-> "idle", g |-> 0, a |-> 0, u |-> "stale", overlap |-> FALSE]
IdleM == [pc |-> "idle", g |-> 0, loc |-> MD_Locals, u |-> "stale", overlap |-> FALSE]

InitWith(params) ==
    /\ nDim \in {2, 3}
    /\ \E h \in HeapGarbage, x \in AuxBuilds :
           /\ (nDim = 2 => x = "flat")
           /\ build = [aux |-> x, heap |-> h]
           /\ m = InitModel(h)
    /\ elem \in params
    /\ el = InitElement
    /\ obs = ObsInit
    /\ stk = InitStack
    /\ last = "none"
    /\ calls = 0
    /\ tpc = IdleT
    /\ mpc = IdleM
    /\ fault = FALSE

Init == InitWith(ElemParams)

----------------------------------------------------------------------------
(* The calls, each as one atomic action *)

Cur == [m |-> m, el |-> el, obs |-> obs, stk |-> stk]

Passes == {"Tangent", "MeanDilatation"}

Entry(name, u) ==
    [Cur EXCEPT !.obs = [ObsInit EXCEPT !.prev = last, !.u = u,
                                        !.passesOnly = obs.passesOnly
                                                       /\ name \in Passes]]

Commit(S) == m' = S.m /\ el' = S.el /\ obs' = S.obs /\ stk' = S.stk

Idle == tpc.pc = "idle" /\ mpc.pc = "idle" /\ ~fault /\ calls < MaxCalls

Returned(name) ==
    /\ last' = name
    /\ calls' = calls + 1
    /\ UNCHANGED <<nDim, build, elem, tpc, mpc, fault>>

TangentCall ==
    /\ Idle
    /\ \E u \in StackOutcomes : Commit(Compute_Tangent_Matrix(Entry("Tangent", u), u))
    /\ Returned("Tangent")

\* line 178: the store to F_Mat[3][3] hits an unmapped address
TangentFault ==
    /\ Idle
    /\ nDim = 2 /\ elem.nNode > 0 /\ elem.nGauss > 0
    /\ fault' = TRUE
    /\ UNCHANGED <<nDim, build, elem, m, el, obs, last, calls, tpc, mpc, stk>>

MeanDilatationCall ==
    /\ Idle
    /\ \E u \in StackOutcomes : Commit(Compute_MeanDilatation_Term(Entry("MeanDilatation", u), u))
    /\ Returned("MeanDilatation")

ConstitutiveCall ==
    /\ Idle
    /\ \E u \in StackOutcomes : Commit(Compute_Constitutive_Matrix(Entry("Constitutive", u), u))
    /\ Returned("Constitutive")

StressCall ==
    /\ Idle
    /\ \E u \in StackOutcomes : Commit(Compute_Stress_Tensor(Entry("Stress", u), u))
    /\ Returned("Stress")

\* the solver moves the element's nodes between calls (CElement::SetCurr_Coord)
Deform ==
    /\ Idle
    /\ \E d \in Deformations \ {elem.def} : elem' = [elem EXCEPT !.def = d]
    /\ last' = "Deform"
    /\ UNCHANGED <<nDim, build, m, el, obs, calls, tpc, mpc, stk, fault>>

Next ==
    \/ Deform
    \/ TangentCall
    \/ TangentFault
    \/ MeanDilatationCall
    \/ ConstitutiveCall
    \/ StressCall

Spec == Init /\ [][Next]_vars

\* the mean-dilatation pass alone, on an element the solver keeps deforming
NextMD ==
    \/ Deform
    \/ MeanDilatationCall

SpecMD == Init /\ [][NextMD]_vars

----------------------------------------------------------------------------
(* The two passes run on one element by two threads, one step of the code  *)
(* at a time: a step is the prologue, one Gauss point up to b_Mat, one     *)
(* node of a Gauss point, or the epilogue.  Each pass runs once.           *)

Alive == ~fault

T_After(g, a) ==
    IF a < elem.nNode THEN [pc |-> "node", g |-> g, a |-> a]
    ELSE IF g + 1 < elem.nGauss THEN [pc |-> "gauss", g |-> g + 1, a |-> 0]
    ELSE [pc |-> "done", g |-> g, a |-> 0]

T_Goto(n) == tpc' = [tpc EXCEPT !.pc = n.pc, !.g = n.g, !.a = n.a]

T_Enter ==
    /\ Alive /\ tpc.pc = "idle"
    /\ Commit(T_Begin(Cur))
    /\ \E u \in StackOutcomes :
           tpc' = [pc |-> IF elem.nGauss = 0 THEN "done" ELSE "gauss",
                   g |-> 0, a |-> 0, u |-> u,
                   overlap |-> mpc.pc \notin {"idle", "done"}]
    /\ UNCHANGED <<nDim, build, elem, last, calls, mpc, fault>>

T_GaussStep ==
    /\ Alive /\ tpc.pc = "gauss"
    /\ Commit(T_Gauss(Cur, tpc.g))
    /\ T_Goto(T_After(tpc.g, 0))
    /\ UNCHANGED <<nDim, build, elem, last, calls, mpc, fault>>

T_NodeStep ==
    /\ Alive /\ tpc.pc = "node"
    /\ Commit(T_Node(Cur, tpc.g, tpc.a, tpc.u))
    /\ T_Goto(T_After(tpc.g, tpc.a + 1))
    /\ UNCHANGED <<nDim, build, elem, last, calls, mpc, fault>>

M_Enter ==
    /\ Alive /\ mpc.pc = "idle"
    /\ Commit(MD_Begin(Cur))
    /\ \E u \in StackOutcomes :
           mpc' = [pc |-> IF GetnGaussPointsP = 0 THEN "finish" ELSE "gauss",
                   g |-> 0, loc |-> MD_Locals, u |-> u,
                   overlap |-> tpc.pc \notin {"idle", "done"}]
    /\ UNCHANGED <<nDim, build, elem, last, calls, tpc, fault>>

M_GaussStep ==
    /\ Alive /\ mpc.pc = "gauss"
    /\ Commit(MD_Gauss(Cur, mpc.g))
    /\ mpc' = [mpc EXCEPT !.loc = MD_GaussLocals(@, mpc.g),
                           !.g = @ + 1,
                           !.pc = IF mpc.g + 1 < GetnGaussPointsP
                                  THEN "gauss" ELSE "finish"]
    /\ UNCHANGED <<nDim, build, elem, last, calls, tpc, fault>>

M_FinishStep ==
    /\ Alive /\ mpc.pc = "finish"
    /\ Commit(MD_Finish(Cur, mpc.loc, mpc.u))
    /\ mpc' = [mpc EXCEPT !.pc = "done"]
    /\ UNCHANGED <<nDim, build, elem, last, calls, tpc, fault>>

NextConc ==
    \/ T_Enter
    \/ T_GaussStep
    \/ T_NodeStep
    \/ M_Enter
    \/ M_GaussStep
    \/ M_FinishStep

\* the elements of the two-thread runs: deformed and undeformed, not collapsed
ConcParams == {p \in ElemParams : p.def # 0 /\ p.gq = 2}

InitConc == InitWith(ConcParams)

SpecConc == InitConc /\ [][NextConc]_vars

----------------------------------------------------------------------------
(* Properties *)

Nodes == 0 .. (elem.nNode - 1)
Dims == 0 .. (nDim - 1)

InitS ==
    [m |-> InitModel(build.heap), el |-> InitElement,
     obs |-> ObsInit, stk |-> InitStack]

Transpose(K) == [i \in Idx3 |-> [j \in Idx3 |-> K[j][i]]]

NonZeroBlock(K) == \E i \in Dims, j \in Dims : K[i][j] # Zero /\ IsFinite(K[i][j])

\* C1: after Compute_Tangent_Matrix on a non-degenerate element (J_F > 0), for every
\* node pair a # b the material block stored at (b,a) is the transpose of
\* the one at (a,b) and the geometric scalar at (b,a) equals the one at (a,b).
C1_Symmetric ==
    (last = "Tangent" /\ elem.def # 0 /\ m.J_F[1] > 0) =>
        \A a \in Nodes, b \in Nodes :
            a # b => /\ el.Kab[b][a] = Transpose(el.Kab[a][b])
                     /\ el.Ks_ab[b][a] = el.Ks_ab[a][b]

\* C2: a Compute_Tangent_Matrix call is not influenced by earlier calls: after
\* any history of tangent and mean-dilatation calls it stores what it stores
\* on the freshly constructed object, b_Mat is F.F^T of the Gauss point's own
\* F_Mat, and the stress tensor it reads was computed at that Gauss point.
C2_NoCarryOver ==
    (last = "Tangent" /\ obs.gaussDone > 0) =>
        /\ m.b_Mat = T_LeftCauchy(Mat(Idx3, Idx3, Zero), m.F_Mat)
        /\ (elem.nNode > 0 => ~obs.staleStressRead /\ m.stressFresh)
        /\ obs.passesOnly =>
               LET fresh == Compute_Tangent_Matrix(InitS, obs.u)
               IN el.Kab = fresh.el.Kab /\ el.Ks_ab = fresh.el.Ks_ab

\* C3: when J_F is zero at a Compute_Constitutive_Matrix call, the Mu_p and
\* Lambda_p that fill D_Mat are the values of the most recent call with
\* J_F # 0; likewise Mu_J and Lambda_J in Compute_Stress_Tensor.
C3_PreviousCoefficients ==
    /\ (obs.constCalled /\ m.J_F = Zero /\ stk.coefSet) =>
           /\ obs.Mu_p = stk.Mu_p /\ obs.Lambda_p = stk.Lambda_p
           /\ m.D_Mat = D_Fill(stk.Mu_p, stk.Lambda_p)
    /\ (last = "Stress" /\ m.J_F = Zero /\ stk.stressSet) =>
           obs.Mu_J = stk.Mu_J /\ obs.Lambda_J = stk.Lambda_J

\* C4: when an accumulated volume is zero, the averaged gradients and the
\* averaged bulk modulus that build the Kk blocks are the values they held
\* before the Compute_MeanDilatation_Term call started.
C4_DegenerateRetains ==
    (last = "MeanDilatation" /\ ~obs.volumes) =>
        /\ m.GradNi_Mat = obs.gradBefore
        /\ obs.Avg_kappa = obs.kappaBefore

\* the mean-dilatation quantities as the specification states them, from
\* the element's inputs
VolCurrent ==
    RSum([g \in 0 .. (GetnGaussPointsP - 1) |->
             RMul(GetWeight_P(g), GetJ_x_P(g))], GetnGaussPointsP)
VolReference ==
    RSum([g \in 0 .. (GetnGaussPointsP - 1) |->
             RMul(GetWeight_P(g), GetJ_X_P(g))], GetnGaussPointsP)
AvgGrad(a, i) ==
    RDiv(RSum([g \in 0 .. (GetnGaussPointsP - 1) |->
                  RMul3(GetWeight_P(g), GetGradNi_x_P(a, g, i), GetJ_x_P(g))],
              GetnGaussPointsP),
         VolCurrent)
AvgKappa == RDiv(RMul(Kappa, VolCurrent), VolReference)

\* C5: with both volumes nonzero Compute_MeanDilatation_Term calls Set_Kk_ab
\* exactly once for every ordered node pair, with block[i][j] = AvgKappa *
\* Vol_current * AvgGrad[a][i] * AvgGrad[b][j], and a second run in a row on
\* the same element leaves the blocks of the first.
C5_PressureBlocks ==
    (last = "MeanDilatation" /\ obs.volumes) =>
        /\ Len(obs.kkCalls) = elem.nNode * elem.nNode
        /\ \A a \in Nodes, b \in Nodes :
               /\ Cardinality({k \in DOMAIN obs.kkCalls :
                                  obs.kkCalls[k] = <<a, b>>}) = 1
               /\ \A i \in Dims, j \in Dims :
                      el.Kk_ab[a][b][i][j] =
                          RMul4(AvgKappa, VolCurrent, AvgGrad(a, i), AvgGrad(b, j))
        /\ obs.prev = "MeanDilatation" => el.Kk_ab = obs.KkBefore

C5_Witness ==
    /\ last = "MeanDilatation" /\ obs.volumes /\ obs.prev = "MeanDilatation"
    /\ elem.nNode >= 2 /\ GetnGaussPointsP >= 1
    /\ NonZeroBlock(el.Kk_ab[0][1]) /\ NonZeroBlock(el.Kk_ab[1][0])

BothDone == tpc.pc = "done" /\ mpc.pc = "done"

SeqEl == Compute_MeanDilatation_Term(Compute_Tangent_Matrix(InitS, tpc.u), mpc.u).el

\* C6: any interleaving of the steps of the two passes leaves
\* the element stiffness storage of the sequential run.
C6_AnyInterleaving == BothDone => el = SeqEl

\* C6, passes not overlapping: the tangent pass stores only into Kab and Ks_ab and the
\* mean-dilatation pass only into Kk_ab, and when one pass completes before
\* the other starts, in either order, the storage is that of the sequential
\* run.
C6_DisjointStorage ==
    /\ tpc.pc = "idle" => el.Kab = InitElement.Kab /\ el.Ks_ab = InitElement.Ks_ab
    /\ mpc.pc = "idle" => el.Kk_ab = InitElement.Kk_ab
    /\ (BothDone /\ ~tpc.overlap /\ ~mpc.overlap) => el = SeqEl

C6_Witness ==
    /\ BothDone /\ ~tpc.overlap /\ ~mpc.overlap
    /\ elem.nNode >= 2 /\ elem.nGauss >= 1
    /\ NonZeroBlock(el.Kk_ab[0][1]) /\ NonZeroBlock(el.Kab[0][1])

\* C7: every read of Stress_Tensor in Compute_Tangent_Matrix follows, within
\* the same Gauss point, a Compute_Stress_Tensor call made after J_F and b_Mat
\* were computed.
C7_StressRefreshed == last = "Tangent" => ~obs.staleStressRead

\* C8: in 2D, F_Mat at the J_F computation is the plane-strain embedding:
\* F[2][2] = 1, the other out-of-plane cells 0, the in-plane part the sum
\* over the nodes of coordinate times gradient; no store leaves 0..2.
C8_PlaneStrain ==
    (nDim = 2 /\ last = "Tangent" /\ obs.gaussDone > 0 /\ elem.nNode > 0) =>
        /\ m.F_Mat[2][2] = One
        /\ m.F_Mat[0][2] = Zero /\ m.F_Mat[1][2] = Zero
        /\ m.F_Mat[2][0] = Zero /\ m.F_Mat[2][1] = Zero
        /\ \A i \in Dims, j \in Dims :
               m.F_Mat[i][j] =
                   RSum([n \in Nodes |->
                            RMul(GetCurr_Coord(n, i),
                                 GetGradNi_X(n, elem.nGauss - 1, j))],
                        elem.nNode)
        /\ ~obs.oob

\* C9: the Voigt rows of Ba/Bb index D_Mat consistently: in 2D the entries
\* of D_Mat read for the shear row and column (index 2) are Mu_p on the
\* diagonal and 0 against xx and yy; in 3D rows 3..5 are the shear rows.
C9_VoigtConsistent ==
    (last = "Tangent" /\ obs.constCalled /\ m.J_F # Zero /\ IsFinite(obs.Mu_p)) =>
        IF nDim = 2
        THEN /\ m.D_Mat[2][2] = obs.Mu_p
             /\ \A k \in 0 .. 1 : m.D_Mat[k][2] = Zero /\ m.D_Mat[2][k] = Zero
        ELSE \A k \in 3 .. 5 : \A j \in Idx6 :
                 m.D_Mat[k][j] = (IF j = k THEN obs.Mu_p ELSE Zero)

\* C10: every block passed to Add_Kab is Weight * (Ba^T.D).Bb * Jac_X as an
\* exact matrix product, in 2D and in 3D.
C10_ExactProduct == last = "Tangent" => obs.blocksExact

====
